---- MODULE Spec2Model ----
(***************************************************************************)
(* Model of the session bridge of src/src/game_env.py (GameEnvironment):   *)
(* the mirrored game state, the turn counter and the history, driven by    *)
(* new_game, get_state, get_actions and execute_action, each one exchange  *)
(* with an opaque engine process through _call_bridge.                     *)
(*                                                                         *)
(* Python values are tagged records [type, v]; a dict's v is a function    *)
(* from its keys to values.  The wall-clock 'timestamp' of a history       *)
(* record is not modelled.                                                 *)
(*                                                                         *)
(* Spec         the session, one step per operation                        *)
(* SpecTrace    the same operations with the value each returns and what   *)
(*              each does on the engine's streams, against an engine that  *)
(*              plays a game to its end                                    *)
(* SpecActions  get_actions over every small action mapping                *)
(* SpecWire     _call_bridge and __del__ statement by statement, with the  *)
(*              engine's response stream; SpecWireLive adds that __del__   *)
(*              goes on running                                            *)
(* SpecAccess   is_game_over, get_winner and get_active_player over every  *)
(*              small snapshot                                             *)
(* SpecCodec    _call_bridge's decoding of the engine's response documents *)
(* SpecHistory  get_game_history and what its caller does with the list    *)
(* SpecAgent    RandomAgent.choose_action (src/src/random_agent.py) over   *)
(*              every small action mapping                                 *)
(* SpecGame     InteractiveGame.run_game (src/src/interactive_game.py):    *)
(*              setup, the loop of play_turn calls with the human's        *)
(*              prompts, and the results display                           *)
(***************************************************************************)
EXTENDS Integers, Sequences, FiniteSets, TLC

VARIABLES game_state, turn_number, game_history, bridge_process, last, obs,
          ret, io, eng, wire, log, agent, game

vars == <<game_state, turn_number, game_history, bridge_process, last, obs,
          ret, io, eng, wire, log, agent, game>>

\* what the other specifications observe on top of the session; Spec leaves
\* these as they start
traced == <<ret, io, eng, wire, log, agent, game>>

\* what the operations of GameEnvironment never touch
apart == <<wire, agent, game>>

\* game_state, turn_number, game_history: the fields of GameEnvironment
\* bridge_process: "running" or "exited", what bridge_process.poll() tells
\* last: the step just taken (see Event)
\* obs: how many execute_action calls since the latest new_game call had a
\*      successful exchange (n_ok) and how many had not (n_fail)
\* ret: the value the step just taken returned to its caller
\* io: what the step just taken did on the engine's streams, in order
\* eng: whether a setup has succeeded so far, and whether the engine has
\*      reported a game-over snapshot so far
\* log: the records the step just taken added to the event log
\* agent: the RandomAgent's decision counter
\* game: InteractiveGame.run_game (see SpecGame):
\*   pc            where run_game stands: "init" (before setup_game), "loop"
\*                 (at the while test), "asking" (at the prompt for a
\*                 choice), "help" (at the prompt that ends the help text),
\*                 "asking_arg" (at the prompt for an argument), "results"
\*                 (after _show_game_results), "returned" (setup failed),
\*                 "aborted" (left by an exception)
\*   turn_count    the loop's counter
\*   human_player  the side the human chose
\*   active_player the player play_turn read when the turn began
\*   action_name   the action the human chose, while its argument is asked
\*   asked, chooser, sent: whether the human was prompted in the turn under
\*                 way or just ended, who was to choose its action, and how
\*                 many times it called execute_action
\* wire: _call_bridge and __del__ statement by statement (see SpecWire):
\*   pc          where the caller stands: "idle", "reading" (in readline of
\*               an exchange), "del_reading" (in readline of __del__'s quit),
\*               "del_waiting" (in bridge_process.wait)
\*   outbox      lines the engine has written and nobody has read yet
\*   nwritten    commands written to the engine so far
\*   nanswered   commands the engine has answered so far
\*   outstanding commands written whose readline has not returned yet
\*   got         which command the line read last was the engine's answer to
\*   extra       lines the engine has written that answer no command
\*   conformant  the engine writes exactly one line per command, in order
\*   dels, quits, waits, terminates: how often __del__ has run, written
\*               quit, called wait, called terminate

(* ------------------------------ bounds -------------------------------- *)

\* execute_action is not called once the turn counter has reached MaxTurns
MaxTurns == 2

(* --------------------------- Python values ---------------------------- *)

None == [type |-> "NoneType"]
PyBool(b) == [type |-> "bool", v |-> b]
PyInt(n) == [type |-> "int", v |-> n]
PyStr(s) == [type |-> "str", v |-> s]
PyList(s) == [type |-> "list", v |-> s]
PyDict(f) == [type |-> "dict", v |-> f]

IsDict(x) == x.type = "dict"

\* bool(x): None, False, 0, "", [] and {} are falsy
Truthy(x) ==
    CASE x.type = "NoneType" -> FALSE
      [] x.type = "bool" -> x.v
      [] x.type = "int" -> x.v # 0
      [] x.type = "str" -> x.v # ""
      [] x.type = "list" -> Len(x.v) > 0
      [] x.type = "dict" -> DOMAIN x.v # {}

\* d.get(k, default) on a dict d
Get(d, k, default) == IF k \in DOMAIN d.v THEN d.v[k] ELSE default

\* x.get(k, default) raises AttributeError unless x is a dict
GetRaises(x) == ~IsDict(x)

(* ----------------------- the engine's vocabulary ---------------------- *)

\* snapshots the engine may report
SnapPlay ==
    PyDict([active_player |-> PyStr("Greece"),
            prompt |-> PyStr("Draw cards"),
            actions |-> PyDict([draw |-> PyInt(1), undo |-> PyInt(1)]),
            game_over |-> PyBool(FALSE)])

\* a gameState that is not a mapping
SnapBad == PyStr("x")

Snapshots == {SnapPlay, SnapBad}

\* response objects the engine may put on a line
EngineObjects ==
    {PyDict([success |-> PyBool(TRUE), gameState |-> s]) : s \in Snapshots}
    \cup {PyDict([success |-> PyBool(TRUE)]),
          PyDict([success |-> PyBool(FALSE), error |-> PyStr("Illegal action")])}

\* JSON documents the engine may write: objects and one non-object
EngineValues == EngineObjects \cup {PyList(<<PyInt(1)>>)}

\* one line of the response stream: a JSON document or text that is not JSON
Lines == {[json |-> TRUE, value |-> x] : x \in EngineValues}
         \cup {[json |-> FALSE, value |-> None]}

\* what the exchange meets after the liveness test: the write fails, the
\* stream ends before a line, or a line arrives
Outcomes == {[k |-> "write_error", line |-> [json |-> FALSE, value |-> None]],
             [k |-> "eof", line |-> [json |-> FALSE, value |-> None]]}
            \cup {[k |-> "line", line |-> l] : l \in Lines}

(* ------------------------------ inputs -------------------------------- *)

\* (player, action, arg) triples passed to execute_action
ActionInputs == {<<"Greece", "draw", None>>, <<"Persia", "bogus", PyInt(3)>>}
Seeds == {None, PyInt(12345)}

(* --------------------------- initial state ---------------------------- *)

Failure(msg) == PyDict([success |-> PyBool(FALSE), error |-> PyStr(msg)])

\* the step just taken: the operation, whether its result (for an exchange,
\* the dict _call_bridge returned) has a truthy 'success', and whether the
\* operation raised to its caller instead of returning
Event(op, ok, raised) == [op |-> op, ok |-> ok, raised |-> raised]

\* no exchange under way, nothing written, nothing waiting to be read,
\* __del__ not run
WireIdle ==
    [pc |-> "idle", outbox |-> <<>>, nwritten |-> 0, nanswered |-> 0,
     outstanding |-> 0, got |-> 0, extra |-> 0, conformant |-> TRUE,
     dels |-> 0, quits |-> 0, waits |-> 0, terminates |-> 0]

\* InteractiveGame.__init__: no environment, no sides
GameIdle ==
    [pc |-> "init", turn_count |-> 0, human_player |-> None, active_player |-> None,
     action_name |-> "", asked |-> FALSE, chooser |-> "none", sent |-> 0]

\* GameEnvironment.__init__: no snapshot, turn 0, empty history, engine started
Init ==
    /\ game_state = None
    /\ turn_number = 0
    /\ game_history = <<>>
    /\ bridge_process = "running"
    /\ last = Event("init", FALSE, FALSE)
    /\ obs = [n_ok |-> 0, n_fail |-> 0]
    /\ ret = None
    /\ io = <<>>
    /\ eng = [setup_done |-> FALSE, engine_over |-> FALSE]
    /\ wire = WireIdle
    /\ log = <<>>
    /\ agent = [decision_count |-> 0]
    /\ game = GameIdle

(* ---------------------------- _call_bridge ---------------------------- *)

\* json.loads(response_line.strip())
json_loads(line) ==
    IF line.json THEN [ok |-> TRUE, value |-> line.value]
    ELSE [ok |-> FALSE, value |-> None]

\* bridge_process.poll() is not None
Exited == bridge_process = "exited"

\* the process after an exchange: the write fails, or the response stream
\* ends before a line, when the process has exited after the liveness test
ProcessAfter(out) ==
    IF out.k \in {"write_error", "eof"} THEN "exited" ELSE bridge_process

\* variant: the engine's error text is replaced by a general one
exchange_result_masked(out) ==
    IF out.k = "write_error" THEN Failure("Bridge communication error")
    ELSE IF out.k = "eof" THEN Failure("No response from bridge")
    ELSE LET p == json_loads(out.line) IN
         IF ~p.ok THEN Failure("JSON decode error")
         ELSE IF GetRaises(p.value) THEN Failure("Bridge communication error")
         ELSE IF Truthy(Get(p.value, "success", None)) THEN p.value
         ELSE Failure("Unknown error")

\* the dict _call_bridge returns once the liveness test has passed
exchange_result(out) ==
    IF out.k = "write_error" THEN Failure("Bridge communication error")
    ELSE IF out.k = "eof" THEN Failure("No response from bridge")
    ELSE LET p == json_loads(out.line) IN
         IF ~p.ok THEN Failure("JSON decode error")
         ELSE IF GetRaises(p.value) THEN Failure("Bridge communication error")
         ELSE p.value

\* variant: the liveness test is left out
call_bridge_unchecked(command, out) == exchange_result(out)

\* the dict _call_bridge returns
call_bridge(command, out) ==
    IF Exited THEN Failure("Bridge server not running")
    ELSE exchange_result(out)

\* result.get('success') is truthy
Succeeded(result) == IsDict(result) /\ Truthy(Get(result, "success", None))

(* --------------------------- _log_game_state -------------------------- *)

EmptyDict == PyDict(<<>>)

\* _log_game_state raises when 'actions' has no keys() or a truthy 'units'
\* has no items(); it returns at once on a falsy snapshot
log_game_state_raises(gs) ==
    /\ Truthy(gs)
    /\ \/ GetRaises(gs)
       \/ ~IsDict(Get(gs, "actions", EmptyDict))
       \/ LET units == Get(gs, "units", EmptyDict) IN Truthy(units) /\ ~IsDict(units)

(* ------------------------------ new_game ------------------------------ *)

setup_command(seed, scenario) ==
    PyDict([cmd |-> PyStr("setup"),
            args |-> PyDict([seed |-> seed, scenario |-> PyStr(scenario),
                             options |-> EmptyDict])])

\* variant: a successful response without gameState keeps the old snapshot
new_game_adopt_keep(result, old) ==
    IF Succeeded(result) /\ "gameState" \in DOMAIN result.v
    THEN Get(result, "gameState", None) ELSE old

\* the snapshot after new_game: the response's gameState on success
new_game_adopt(result, old) ==
    IF Succeeded(result) THEN Get(result, "gameState", None) ELSE old

\* new_game goes on to read the adopted snapshot with .get() when it is truthy
new_game_raises(result, gs) ==
    Succeeded(result) /\ Truthy(gs) /\ (GetRaises(gs) \/ log_game_state_raises(gs))

new_game(seed, scenario, out) ==
    LET command == setup_command(seed, scenario)
        result == call_bridge(command, out)
        gs == new_game_adopt(result, game_state)
        raised == new_game_raises(result, gs)
    IN /\ turn_number' = 0
       /\ game_history' = <<>>
       /\ game_state' = gs
       /\ bridge_process' = ProcessAfter(out)
       /\ last' = Event("new_game", Succeeded(result), raised)
       /\ obs' = [n_ok |-> 0, n_fail |-> 0]

(* ------------------------------ get_state ----------------------------- *)

state_command == PyDict([cmd |-> PyStr("state")])

\* variant: a failed query drops the snapshot
get_state_adopt_drop(result, old) ==
    IF Succeeded(result) THEN Get(result, "gameState", None) ELSE None

\* the snapshot after get_state
get_state_adopt(result, old) ==
    IF Succeeded(result) THEN Get(result, "gameState", None) ELSE old

get_state(out) ==
    LET result == call_bridge(state_command, out)
    IN /\ game_state' = get_state_adopt(result, game_state)
       /\ bridge_process' = ProcessAfter(out)
       /\ last' = Event("get_state", Succeeded(result), FALSE)
       /\ UNCHANGED <<turn_number, game_history, obs>>

(* ----------------------------- get_actions ---------------------------- *)

\* variant: nothing is filtered out
without_undo_nothing(raw) == raw

\* {k: v for k, v in raw_actions.items() if k != 'undo'}
without_undo(raw) == PyDict([k \in DOMAIN raw.v \ {"undo"} |-> raw.v[k]])

\* get_actions reads the snapshot with .get() and the action mapping with
\* keys() or items()
get_actions_raises(gs) ==
    Truthy(gs) /\ (GetRaises(gs) \/ ~IsDict(Get(gs, "actions", EmptyDict)))

get_actions_result(gs, include_undo) ==
    IF ~Truthy(gs) THEN Failure("No active game")
    ELSE LET raw_actions == Get(gs, "actions", EmptyDict) IN
         PyDict([success |-> PyBool(TRUE),
                 actions |-> IF include_undo THEN raw_actions
                             ELSE without_undo(raw_actions),
                 active_player |-> Get(gs, "active_player", None),
                 message |-> PyStr(IF include_undo
                                   THEN "Available actions from game state"
                                   ELSE "Available actions from game state (undo filtered)")])

get_actions(include_undo) ==
    LET raised == get_actions_raises(game_state)
    IN /\ last' = Event("get_actions",
                        ~raised /\ Succeeded(get_actions_result(game_state, include_undo)),
                        raised)
       /\ UNCHANGED <<game_state, turn_number, game_history, bridge_process, obs>>

(* --------------------------- execute_action --------------------------- *)

action_command(player, action, arg) ==
    PyDict([cmd |-> PyStr("action"),
            args |-> PyDict([player |-> PyStr(player), action |-> PyStr(action),
                             arg |-> arg])])

\* variant: the counter moves only after the exchange, and is left alone here
next_turn_same(t) == t

\* self.turn_number += 1, before the exchange
next_turn(t) == t + 1

\* variant: a failed action drops the snapshot
execute_action_adopt_drop(result, old) ==
    IF Succeeded(result) THEN Get(result, "gameState", None) ELSE None

\* the snapshot after execute_action
execute_action_adopt(result, old) ==
    IF Succeeded(result) THEN Get(result, "gameState", None) ELSE old

\* variant: before and after snapshots swapped
action_record_swapped(turn, player, action, arg, old_state, new_state) ==
    [turn |-> turn, player |-> player, action |-> action, arg |-> arg,
     game_state_before |-> new_state, game_state_after |-> old_state]

\* the Turn Record appended on success
action_record(turn, player, action, arg, old_state, new_state) ==
    [turn |-> turn, player |-> player, action |-> action, arg |-> arg,
     game_state_before |-> old_state, game_state_after |-> new_state]

\* variant: the record is kept only when the new snapshot is truthy
execute_action_history_truthy(history, result, record) ==
    IF Succeeded(result) /\ Truthy(record.game_state_after)
    THEN Append(history, record) ELSE history

\* variant: the record replaces the history
execute_action_history_replace(history, result, record) ==
    IF Succeeded(result) THEN <<record>> ELSE history

\* the history after execute_action
execute_action_history(history, result, record) ==
    IF Succeeded(result) THEN Append(history, record) ELSE history

\* after appending the record execute_action reads the new snapshot with
\* .get() when it is truthy
execute_action_raises(result, gs) ==
    Succeeded(result) /\ Truthy(gs) /\ (GetRaises(gs) \/ log_game_state_raises(gs))

execute_action(player, action, arg, out) ==
    LET command == action_command(player, action, arg)
        turn == next_turn(turn_number)
        result == call_bridge(command, out)
        gs == execute_action_adopt(result, game_state)
        record == action_record(turn, player, action, arg, game_state, gs)
        raised == execute_action_raises(result, gs)
    IN /\ turn_number < MaxTurns
       /\ turn_number' = turn
       /\ game_state' = gs
       /\ game_history' = execute_action_history(game_history, result, record)
       /\ bridge_process' = ProcessAfter(out)
       /\ last' = Event("execute_action", Succeeded(result), raised)
       /\ obs' = IF Succeeded(result)
                 THEN [obs EXCEPT !.n_ok = @ + 1]
                 ELSE [obs EXCEPT !.n_fail = @ + 1]

(* ------------------------------ the engine ---------------------------- *)

\* the engine process exits on its own or is killed from outside
EngineExit ==
    /\ ~Exited
    /\ bridge_process' = "exited"
    /\ last' = Event("engine_exit", FALSE, FALSE)
    /\ UNCHANGED <<game_state, turn_number, game_history, obs>>

\* the engine exits while only the session is observed
EngineExits == EngineExit /\ UNCHANGED traced

(* ---------------------------- specification --------------------------- *)

\* an exited process produces nothing: one outcome stands for all
OutcomesNow == IF Exited THEN {CHOOSE o \in Outcomes : o.k = "eof"} ELSE Outcomes

NewGame ==
    /\ \E seed \in Seeds, out \in OutcomesNow : new_game(seed, "Standard", out)
    /\ UNCHANGED traced
GetState ==
    /\ \E out \in OutcomesNow : get_state(out)
    /\ UNCHANGED traced
GetActions ==
    /\ \E include_undo \in BOOLEAN : get_actions(include_undo)
    /\ UNCHANGED traced
ExecuteAction ==
    /\ \E input \in ActionInputs, out \in OutcomesNow :
        execute_action(input[1], input[2], input[3], out)
    /\ UNCHANGED traced

Next == NewGame \/ GetState \/ GetActions \/ ExecuteAction \/ EngineExits

Spec == Init /\ [][Next]_vars

(* ------------------------------ properties ---------------------------- *)

\* the engine's line is an object with a truthy 'success'
EngineSuccess(out) ==
    /\ out.k = "line"
    /\ out.line.json
    /\ IsDict(out.line.value)
    /\ Truthy(Get(out.line.value, "success", None))

\* the snapshot carried by the engine's response object, None when absent
ResponseSnapshot(out) == Get(out.line.value, "gameState", None)

IsPrefix(s, t) == Len(s) <= Len(t) /\ SubSeq(t, 1, Len(s)) = s

FailedAction == last.op = "execute_action" /\ ~last.ok

\* C1: a failed execute_action leaves the turn index unchanged
C1_FailedActionKeepsTurn ==
    [][(last'.op = "execute_action" /\ ~last'.ok) => turn_number' = turn_number]_vars

\* C2: a failed execute_action leaves the history and the current snapshot
\* exactly as they were
C2_FailedActionKeepsHistoryAndSnapshot ==
    [][(last'.op = "execute_action" /\ ~last'.ok)
        => (game_history' = game_history /\ game_state' = game_state)]_vars

C2_Witness ==
    FailedAction /\ Len(game_history) >= 1 /\ game_state = SnapPlay

\* C3: a failed new_game leaves the snapshot, the turn index and the history
\* as they were
C3_FailedSetupKeepsSession ==
    [][(last'.op = "new_game" /\ ~last'.ok)
        => UNCHANGED <<game_state, turn_number, game_history>>]_vars

\* C4: after a successful new_game the turn index is 0, the history is empty
\* and the current snapshot is the one carried by the setup response
C4_SetupResets ==
    [][(last'.op = "new_game" /\ last'.ok)
        => /\ turn_number' = 0
           /\ game_history' = <<>>
           /\ \A seed \in Seeds, out \in Outcomes :
                (new_game(seed, "Standard", out) /\ ~Exited /\ EngineSuccess(out))
                => game_state' = ResponseSnapshot(out)]_vars

C4_Witness == last.op = "new_game" /\ last.ok /\ game_state = SnapPlay

\* C5: while every execute_action call since the latest new_game call has
\* succeeded, N of them, the turn index is N and the history has N records
C5_TurnCountsSuccesses ==
    obs.n_fail = 0 => (turn_number = obs.n_ok /\ Len(game_history) = turn_number)

C5_Witness ==
    /\ obs.n_fail = 0 /\ obs.n_ok = 2
    /\ last.op = "execute_action" /\ last.ok
    /\ game_history[1].game_state_before = SnapPlay

\* C6: the Turn Records of the history carry the turn indices 1, 2, ...,
\* len(history) in order
C6_HistoryGapless ==
    \A i \in 1..Len(game_history) : game_history[i].turn = i

\* C7: a successful execute_action(player, action, arg) adds 1 to the turn
\* index, adopts the response's snapshot and appends one record with the
\* values passed, the snapshot held before the call and the new snapshot
C7_SuccessfulActionRecords ==
    [][(last'.op = "execute_action" /\ last'.ok)
        => /\ turn_number' = turn_number + 1
           /\ Len(game_history') = Len(game_history) + 1
           /\ \A input \in ActionInputs, out \in Outcomes :
                (execute_action(input[1], input[2], input[3], out)
                    /\ ~Exited /\ EngineSuccess(out))
                => /\ game_state' = ResponseSnapshot(out)
                   /\ game_history' =
                        Append(game_history,
                               [turn |-> turn_number + 1, player |-> input[1],
                                action |-> input[2], arg |-> input[3],
                                game_state_before |-> game_state,
                                game_state_after |-> game_state'])]_vars

C7_Witness ==
    /\ last.op = "execute_action" /\ last.ok
    /\ Len(game_history) = 2
    /\ game_history[2].game_state_before # game_history[2].game_state_after

\* C8: get_state never changes the turn index or the history; on success it
\* adopts the response's snapshot, on failure it keeps the current one
C8_QueryFrame ==
    [][last'.op = "get_state"
        => /\ turn_number' = turn_number
           /\ game_history' = game_history
           /\ ~last'.ok => game_state' = game_state
           /\ \A out \in Outcomes :
                (get_state(out) /\ ~Exited /\ EngineSuccess(out))
                => game_state' = ResponseSnapshot(out)]_vars

C8_Witness ==
    /\ last.op = "get_state" /\ last.ok
    /\ Len(game_history) >= 1
    /\ game_state # game_history[Len(game_history)].game_state_after

\* C9: between two new_game calls the history only grows at its end, by one
\* record, and only in a successful execute_action
C9_HistoryAppendOnly ==
    [][last'.op # "new_game"
        => /\ IsPrefix(game_history, game_history')
           /\ game_history' # game_history
              => /\ last'.op = "execute_action" /\ last'.ok
                 /\ Len(game_history') = Len(game_history) + 1]_vars

C9_Witness ==
    last.op = "execute_action" /\ last.ok /\ Len(game_history) = 2

\* C10: every public bridge operation returns a result and never raises to
\* its caller, whatever line the engine produced
C10_NeverRaises == ~last.raised

(* ------------------- operations with their results -------------------- *)

\* execute_action is not called in SpecTrace once the turn counter has
\* reached MaxTraceTurns
MaxTraceTurns == 1

\* a snapshot of a finished game
SnapOver ==
    PyDict([active_player |-> PyStr("Persia"),
            prompt |-> PyStr("Game over"),
            actions |-> PyDict([undo |-> PyInt(1)]),
            game_over |-> PyBool(TRUE),
            winner |-> PyStr("Persia")])

\* response lines of an engine that plays a game to its end
TraceLines ==
    {[json |-> TRUE, value |-> PyDict([success |-> PyBool(TRUE), gameState |-> s])] :
        s \in {SnapPlay, SnapOver}}
    \cup {[json |-> TRUE, value |-> PyDict([success |-> PyBool(TRUE)])],
          [json |-> TRUE,
           value |-> PyDict([success |-> PyBool(FALSE), error |-> PyStr("Illegal action")])],
          [json |-> FALSE, value |-> None]}

\* the snapshot a response line carries, None when it carries none
line_snapshot(line) ==
    IF line.json /\ IsDict(line.value) THEN Get(line.value, "gameState", None) ELSE None

\* is_game_over(): False without a snapshot, else the snapshot's 'game_over'
is_game_over(gs) ==
    IF ~Truthy(gs) THEN PyBool(FALSE) ELSE Get(gs, "game_over", PyBool(FALSE))

\* the engine stays finished: once it has reported a game-over snapshot,
\* every snapshot it reports has game_over true
TraceOutcomes ==
    IF Exited THEN {CHOOSE o \in Outcomes : o.k = "eof"}
    ELSE {o \in Outcomes : o.k # "line"}
         \cup {[k |-> "line", line |-> l] :
                  l \in {x \in TraceLines :
                            eng.engine_over /\ line_snapshot(x) # None
                                => Truthy(is_game_over(line_snapshot(x)))}}

\* an operation that raised returned nothing
Raised == [type |-> "raised"]

\* what _call_bridge does on the engine's streams: nothing when the liveness
\* test fails, a write that raises, or a write followed by a readline
call_bridge_io(command, out) ==
    IF Exited THEN <<>>
    ELSE IF out.k = "write_error" THEN <<[ev |-> "write", command |-> command, ok |-> FALSE]>>
    ELSE <<[ev |-> "write", command |-> command, ok |-> TRUE], [ev |-> "readline"]>>

\* the engine has put a game-over snapshot on a line the exchange read
engine_over_after(out) ==
    \/ eng.engine_over
    \/ /\ ~Exited
       /\ out.k = "line"
       /\ line_snapshot(out.line) # None
       /\ IsDict(line_snapshot(out.line))
       /\ Truthy(is_game_over(line_snapshot(out.line)))

\* the level GameEnvironment logs at unless told otherwise
log_level == "INFO"

\* the levels a logger set to the given level lets through
LevelsAt(level) ==
    CASE level = "DEBUG" -> {"DEBUG", "INFO", "WARNING", "ERROR"}
      [] level = "INFO" -> {"INFO", "WARNING", "ERROR"}
      [] level = "WARNING" -> {"WARNING", "ERROR"}
      [] level = "ERROR" -> {"ERROR"}

\* one logger call: its level, the verb its message names ("" when it names
\* none) and the outcome it reports ("ok", "failed", or "" when it reports
\* none)
LogCall(level, verb, outcome) == [level |-> level, verb |-> verb, outcome |-> outcome]

\* the calls that reach the log file
emitted(calls) == SelectSeq(calls, LAMBDA c : c.level \in LevelsAt(log_level))

\* the logger calls of _call_bridge
call_bridge_log(command, out) ==
    LET verb == command.v.cmd.v
        p == json_loads(out.line)
    IN IF Exited THEN <<LogCall("ERROR", "", "failed")>>
       ELSE <<LogCall("DEBUG", verb, "")>> \o
            (IF out.k \in {"write_error", "eof"} THEN <<LogCall("ERROR", "", "failed")>>
             ELSE IF ~p.ok \/ GetRaises(p.value) THEN <<LogCall("ERROR", "", "failed")>>
             ELSE IF Truthy(Get(p.value, "success", None))
                  THEN <<LogCall("DEBUG", verb, "ok")>>
                  ELSE <<LogCall("WARNING", verb, "failed")>>)

\* the logger calls of new_game around the exchange; the lines of
\* _log_game_state name neither verb nor outcome and are left out
new_game_log(command, out, gs) ==
    LET result == call_bridge(command, out)
    IN <<LogCall("INFO", "setup", "")>> \o call_bridge_log(command, out) \o
       (IF ~Succeeded(result) THEN <<LogCall("ERROR", "setup", "failed")>>
        ELSE IF ~Truthy(gs) THEN <<LogCall("WARNING", "setup", "ok")>>
        ELSE IF GetRaises(gs) THEN <<>>
        ELSE <<LogCall("INFO", "setup", "ok"), LogCall("INFO", "", "")>>)

\* the logger calls of get_state
get_state_log(out) ==
    call_bridge_log(state_command, out) \o
    (IF Succeeded(call_bridge(state_command, out))
     THEN <<LogCall("DEBUG", "state", "ok")>>
     ELSE <<LogCall("WARNING", "state", "failed")>>)

\* the logger calls of get_actions
get_actions_log(gs) ==
    IF ~Truthy(gs) THEN <<LogCall("WARNING", "", "failed")>>
    ELSE IF get_actions_raises(gs) THEN <<>>
    ELSE <<LogCall("DEBUG", "", "")>>

\* the logger calls of execute_action around the exchange
execute_action_log(command, out) ==
    <<LogCall("INFO", "action", "")>> \o call_bridge_log(command, out) \o
    (IF Succeeded(call_bridge(command, out))
     THEN <<LogCall("INFO", "action", "ok")>>
     ELSE <<LogCall("ERROR", "action", "failed")>>)

\* new_game returns the dict _call_bridge returned
TraceNewGame ==
    \E seed \in Seeds, out \in TraceOutcomes :
        LET command == setup_command(seed, "Standard")
            result == call_bridge(command, out)
        IN /\ new_game(seed, "Standard", out)
           /\ ret' = IF last'.raised THEN Raised ELSE result
           /\ io' = call_bridge_io(command, out)
           /\ eng' = [setup_done |-> eng.setup_done \/ Succeeded(result),
                      engine_over |-> engine_over_after(out)]
           /\ log' = emitted(new_game_log(command, out, game_state'))
           /\ UNCHANGED apart

\* get_state returns the dict _call_bridge returned
trace_get_state(out) ==
    /\ get_state(out)
    /\ ret' = call_bridge(state_command, out)
    /\ io' = call_bridge_io(state_command, out)
    /\ eng' = [eng EXCEPT !.engine_over = engine_over_after(out)]
    /\ log' = emitted(get_state_log(out))
    /\ UNCHANGED apart

TraceGetState == \E out \in TraceOutcomes : trace_get_state(out)

\* variant: get_actions asks the engine for the state first
trace_get_actions_query(include_undo) ==
    /\ get_actions(include_undo)
    /\ ret' = IF last'.raised THEN Raised
              ELSE get_actions_result(game_state, include_undo)
    /\ io' = call_bridge_io(state_command, CHOOSE o \in Outcomes : o.k = "eof")
    /\ log' = emitted(get_actions_log(game_state))
    /\ UNCHANGED <<eng, apart>>

\* get_actions builds its result from the held snapshot; it makes no call
\* to _call_bridge
trace_get_actions(include_undo) ==
    /\ get_actions(include_undo)
    /\ ret' = IF last'.raised THEN Raised
              ELSE get_actions_result(game_state, include_undo)
    /\ io' = <<>>
    /\ log' = emitted(get_actions_log(game_state))
    /\ UNCHANGED <<eng, apart>>

TraceGetActions == \E include_undo \in BOOLEAN : trace_get_actions(include_undo)

\* variant: execute_action refuses locally once the held snapshot says the
\* game is over
trace_execute_action_over(player, action, arg, out) ==
    LET command == action_command(player, action, arg)
        result == call_bridge(command, out)
    IN IF Truthy(is_game_over(game_state))
       THEN /\ turn_number < MaxTurns
            /\ turn_number' = next_turn(turn_number)
            /\ last' = Event("execute_action", FALSE, FALSE)
            /\ obs' = [obs EXCEPT !.n_fail = @ + 1]
            /\ ret' = Failure("Game is over")
            /\ io' = <<>>
            /\ log' = emitted(<<LogCall("INFO", "action", ""), LogCall("ERROR", "action", "failed")>>)
            /\ UNCHANGED <<game_state, game_history, bridge_process, eng, apart>>
       ELSE /\ execute_action(player, action, arg, out)
            /\ ret' = IF last'.raised THEN Raised ELSE result
            /\ io' = call_bridge_io(command, out)
            /\ eng' = [eng EXCEPT !.engine_over = engine_over_after(out)]
            /\ log' = emitted(execute_action_log(command, out))
            /\ UNCHANGED apart

\* variant: execute_action refuses locally while no snapshot is held
trace_execute_action_idle(player, action, arg, out) ==
    LET command == action_command(player, action, arg)
        result == call_bridge(command, out)
    IN IF ~Truthy(game_state)
       THEN /\ turn_number < MaxTurns
            /\ turn_number' = next_turn(turn_number)
            /\ last' = Event("execute_action", FALSE, FALSE)
            /\ obs' = [obs EXCEPT !.n_fail = @ + 1]
            /\ ret' = Failure("No active game")
            /\ io' = <<>>
            /\ log' = emitted(<<LogCall("INFO", "action", ""), LogCall("ERROR", "action", "failed")>>)
            /\ UNCHANGED <<game_state, game_history, bridge_process, eng, apart>>
       ELSE /\ execute_action(player, action, arg, out)
            /\ ret' = IF last'.raised THEN Raised ELSE result
            /\ io' = call_bridge_io(command, out)
            /\ eng' = [eng EXCEPT !.engine_over = engine_over_after(out)]
            /\ log' = emitted(execute_action_log(command, out))
            /\ UNCHANGED apart

\* execute_action returns the dict _call_bridge returned; nothing stands
\* between building the command and the call to _call_bridge
trace_execute_action(player, action, arg, out) ==
    LET command == action_command(player, action, arg)
        result == call_bridge(command, out)
    IN /\ execute_action(player, action, arg, out)
       /\ ret' = IF last'.raised THEN Raised ELSE result
       /\ io' = call_bridge_io(command, out)
       /\ eng' = [eng EXCEPT !.engine_over = engine_over_after(out)]
       /\ log' = emitted(execute_action_log(command, out))
       /\ UNCHANGED apart

TraceExecuteAction ==
    /\ turn_number < MaxTraceTurns
    /\ \E input \in ActionInputs, out \in TraceOutcomes :
        trace_execute_action(input[1], input[2], input[3], out)

\* the engine exits between two operations
TraceEngineExit == EngineExit /\ UNCHANGED traced

NextTrace ==
    \/ TraceNewGame
    \/ TraceGetState
    \/ TraceGetActions
    \/ TraceExecuteAction
    \/ TraceEngineExit

SpecTrace == Init /\ [][NextTrace]_vars

BridgeOps == {"new_game", "get_state", "get_actions", "execute_action"}

\* C11: once the engine process has exited, every bridge operation invoked
\* (new_game, get_state, get_actions, execute_action) returns the failure
\* that reports the process as not running
C11_ExitedProcessFailsEveryOperation ==
    [][(Exited /\ last'.op \in BridgeOps)
         => ret' = Failure("Bridge server not running")]_vars

(* ----------------------- get_actions on any mapping -------------------- *)

\* action names and arguments a snapshot's 'actions' mapping may hold
ActionKeys == {"draw", "undo", "next", "city"}
ActionArgs == {PyInt(1), PyList(<<PyStr("Athenai"), PyStr("Sparta")>>)}

\* every mapping from some of the names to the arguments
ActionMaps == UNION {[S -> ActionArgs] : S \in SUBSET ActionKeys}

\* snapshots with each of the mappings, and one with no 'actions' at all
ActionSnapshots ==
    {PyDict([active_player |-> PyStr("Greece"), actions |-> PyDict(m)]) : m \in ActionMaps}
    \cup {PyDict([active_player |-> PyStr("Greece")])}

\* the engine answers a state query with the snapshot s
SnapshotOutcome(s) ==
    [k |-> "line",
     line |-> [json |-> TRUE,
               value |-> PyDict([success |-> PyBool(TRUE), gameState |-> s])]]

ActionsGetState == \E s \in ActionSnapshots : trace_get_state(SnapshotOutcome(s))

NextActions == ActionsGetState \/ TraceGetActions

SpecActions == Init /\ [][NextActions]_vars

\* the held snapshot's action mapping, empty when the snapshot has none
HeldActions == IF "actions" \in DOMAIN game_state.v THEN game_state.v.actions.v ELSE <<>>

\* C16: get_actions(include_undo=False) never returns 'undo';
\* get_actions(include_undo=True) returns 'undo' exactly when the held
\* snapshot's action mapping has it; every other key comes back with its
\* value unchanged
C16_UndoFilter ==
    [][\A include_undo \in BOOLEAN :
         (trace_get_actions(include_undo) /\ last'.ok)
           => LET returned == ret'.v.actions.v IN
              /\ ~include_undo => "undo" \notin DOMAIN returned
              /\ include_undo => ("undo" \in DOMAIN returned <=> "undo" \in DOMAIN HeldActions)
              /\ DOMAIN returned \ {"undo"} = DOMAIN HeldActions \ {"undo"}
              /\ \A k \in DOMAIN returned : returned[k] = HeldActions[k]]_vars

\* get_actions has just answered both ways round: without 'undo' from a
\* mapping that holds it beside other keys
C16_Witness ==
    /\ last.op = "get_actions"
    /\ last.ok
    /\ "undo" \in DOMAIN HeldActions
    /\ DOMAIN HeldActions # {"undo"}
    /\ "undo" \notin DOMAIN ret.v.actions.v

\* C17: get_actions fails with the no-active-session error when no setup
\* has succeeded yet, and succeeds in every state reached after a
\* successful setup, whatever exchanges came after it
C17_ActionsNeedSetup ==
    [][last'.op = "get_actions"
         => IF eng.setup_done THEN last'.ok /\ ~last'.raised
            ELSE ret' = Failure("No active game")]_vars

\* C18: get_actions is computed from the held snapshot alone: it writes no
\* command, reads no response, and leaves the snapshot, the turn counter and
\* the history as they were
C18_ActionsAreLocal ==
    [][last'.op = "get_actions"
         => /\ io' = <<>>
            /\ UNCHANGED <<game_state, turn_number, game_history>>]_vars

\* get_actions has just answered from a held snapshot while the engine runs
C18_Witness ==
    /\ last.op = "get_actions"
    /\ last.ok
    /\ ~Exited
    /\ Truthy(game_state)
    /\ io = <<>>

\* C19: execute_action called while the engine process is alive always
\* writes its action command, whatever the held snapshot says; a snapshot
\* with game_over true does not stop it
C19_ActionAlwaysWritten ==
    [][(last'.op = "execute_action" /\ ~Exited)
         => /\ Len(io') >= 1
            /\ io'[1].ev = "write"
            /\ \E input \in ActionInputs :
                  io'[1].command = action_command(input[1], input[2], input[3])
            /\ bridge_process' = "running" => io'[1].ok]_vars

\* an action was written, and answered with a failure, while the held
\* snapshot said the game was over
C19_Witness ==
    /\ last.op = "execute_action"
    /\ ~last.ok
    /\ game_state = SnapOver
    /\ Len(io) = 2
    /\ io[1].ok
    /\ io[1].command.v.cmd = PyStr("action")

\* C20: against an engine that stays finished, once is_game_over() is true
\* it is still true after every later get_state or execute_action, whether
\* that exchange succeeded or failed
C20_GameOverStays ==
    [][(Truthy(is_game_over(game_state)) /\ last'.op \in {"get_state", "execute_action"})
         => Truthy(is_game_over(game_state'))]_vars

(* ------------------ _call_bridge and __del__ in steps ------------------ *)

\* commands written, __del__'s quit aside, stay below MaxCommands
MaxCommands == 3
\* lines the engine writes that answer no command
MaxExtraLines == 1
\* runs of __del__
MaxDels == 2

\* verbs of the public operations
Verbs == {"setup", "state", "action"}

\* what the engine may put on a line
WireValues ==
    {[json |-> TRUE, value |-> PyDict([success |-> PyBool(TRUE)])],
     [json |-> TRUE,
      value |-> PyDict([success |-> PyBool(FALSE), error |-> PyStr("Illegal action")])],
     [json |-> FALSE, value |-> None]}

\* a line on the response stream, with the command it answers (0: none)
WireLine(l, re) == [json |-> l.json, value |-> l.value, re |-> re]

session == <<game_state, turn_number, game_history, obs, io, eng, log, agent, game>>

\* the engine is started, or Popen failed and __init__ raised with
\* bridge_process still None
InitWire ==
    /\ game_state = None
    /\ turn_number = 0
    /\ game_history = <<>>
    /\ bridge_process \in {"running", "none"}
    /\ last = Event("init", FALSE, FALSE)
    /\ obs = [n_ok |-> 0, n_fail |-> 0]
    /\ ret = None
    /\ io = <<>>
    /\ eng = [setup_done |-> FALSE, engine_over |-> FALSE]
    /\ wire \in {[WireIdle EXCEPT !.conformant = c] : c \in BOOLEAN}
    /\ log = <<>>
    /\ agent = [decision_count |-> 0]
    /\ game = GameIdle

\* not self.bridge_process or self.bridge_process.poll() is not None
NotRunning == bridge_process \in {"none", "exited"}

\* variant: quit is written and not waited for
reads_response_not_quit(verb) == verb # "quit"

\* every command written is followed by a readline
reads_response(verb) == TRUE

\* variant: a line that is not JSON stays on the stream
rest_after_readline_keep(buf) == IF Head(buf).json THEN Tail(buf) ELSE buf

\* the response stream after readline has returned its first line
rest_after_readline(buf) == Tail(buf)

\* a public operation enters _call_bridge: the liveness test, then the write
Call(verb) ==
    /\ wire.pc = "idle"
    /\ wire.dels = 0
    /\ bridge_process # "none"
    /\ wire.nwritten < MaxCommands
    /\ \/ /\ NotRunning
          /\ ret' = Failure("Bridge server not running")
          /\ last' = Event("call", FALSE, FALSE)
          /\ UNCHANGED <<wire, bridge_process>>
       \/ /\ ~NotRunning
          /\ ret' = Failure("Bridge communication error")
          /\ last' = Event("call", FALSE, FALSE)
          /\ bridge_process' = "exited"
          /\ UNCHANGED wire
       \/ /\ ~NotRunning
          /\ wire' = [wire EXCEPT !.nwritten = @ + 1,
                                  !.outstanding = @ + 1,
                                  !.pc = IF reads_response(verb) THEN "reading" ELSE "idle"]
          /\ last' = Event("call", FALSE, FALSE)
          /\ UNCHANGED <<ret, bridge_process>>
    /\ UNCHANGED session

\* readline returns a line, or '' at the end of the stream of an exited
\* engine; it blocks while the stream is empty and the engine runs
ReadLine ==
    /\ wire.pc = "reading"
    /\ \/ /\ wire.outbox # <<>>
          /\ LET result == exchange_result([k |-> "line", line |-> Head(wire.outbox)])
             IN /\ ret' = result
                /\ last' = Event("readline", Succeeded(result), FALSE)
          /\ wire' = [wire EXCEPT !.outbox = rest_after_readline(@),
                                  !.got = Head(wire.outbox).re,
                                  !.outstanding = @ - 1,
                                  !.pc = "idle"]
       \/ /\ wire.outbox = <<>>
          /\ Exited
          /\ ret' = Failure("No response from bridge")
          /\ last' = Event("readline", FALSE, FALSE)
          /\ wire' = [wire EXCEPT !.outstanding = @ - 1, !.pc = "idle"]
    /\ UNCHANGED <<bridge_process, session>>

\* variant: the poll() test is left out
del_guard_started(proc) == proc # "none"

\* self.bridge_process and self.bridge_process.poll() is None
del_guard(proc) == proc = "running"

\* __del__ starts: nothing to do unless the engine is alive; else the quit
\* exchange, then wait(timeout=2)
DelBegin ==
    /\ wire.pc = "idle"
    /\ wire.dels < MaxDels
    /\ last' = Event("del", FALSE, FALSE)
    /\ IF ~del_guard(bridge_process)
       THEN /\ wire' = [wire EXCEPT !.dels = @ + 1]
            /\ UNCHANGED bridge_process
       ELSE \/ /\ NotRunning
               /\ wire' = [wire EXCEPT !.dels = @ + 1, !.waits = @ + 1,
                                       !.pc = "del_waiting"]
               /\ UNCHANGED bridge_process
            \/ /\ ~NotRunning
               /\ bridge_process' = "exited"
               /\ wire' = [wire EXCEPT !.dels = @ + 1, !.waits = @ + 1,
                                       !.pc = "del_waiting"]
            \/ /\ ~NotRunning
               /\ wire' = [wire EXCEPT !.dels = @ + 1, !.quits = @ + 1,
                                       !.nwritten = @ + 1, !.outstanding = @ + 1,
                                       !.waits = IF reads_response("quit") THEN @ ELSE @ + 1,
                                       !.pc = IF reads_response("quit")
                                              THEN "del_reading" ELSE "del_waiting"]
               /\ UNCHANGED bridge_process
    /\ UNCHANGED <<ret, session>>

\* the readline of the quit exchange returns; its result is dropped and
\* wait(timeout=2) is called
DelRead ==
    /\ wire.pc = "del_reading"
    /\ \/ /\ wire.outbox # <<>>
          /\ wire' = [wire EXCEPT !.outbox = rest_after_readline(@),
                                  !.got = Head(wire.outbox).re,
                                  !.outstanding = @ - 1,
                                  !.waits = @ + 1,
                                  !.pc = "del_waiting"]
       \/ /\ wire.outbox = <<>>
          /\ Exited
          /\ wire' = [wire EXCEPT !.outstanding = @ - 1, !.waits = @ + 1,
                                  !.pc = "del_waiting"]
    /\ last' = Event("del_readline", FALSE, FALSE)
    /\ UNCHANGED <<bridge_process, ret, session>>

\* wait returns because the engine has exited
DelWaitReturns ==
    /\ wire.pc = "del_waiting"
    /\ Exited
    /\ wire' = [wire EXCEPT !.pc = "idle"]
    /\ last' = Event("del_wait", TRUE, FALSE)
    /\ UNCHANGED <<bridge_process, ret, session>>

\* wait raises TimeoutExpired; the except branch calls terminate()
DelTimeout ==
    /\ wire.pc = "del_waiting"
    /\ ~Exited
    /\ wire' = [wire EXCEPT !.pc = "idle", !.terminates = @ + 1]
    /\ last' = Event("del_wait", FALSE, FALSE)
    /\ UNCHANGED <<bridge_process, ret, session>>

\* the engine answers the oldest command it has not answered with one line
EngineAnswer ==
    /\ ~NotRunning
    /\ wire.nanswered < wire.nwritten
    /\ \E l \in WireValues :
          wire' = [wire EXCEPT !.nanswered = @ + 1,
                               !.outbox = Append(@, WireLine(l, wire.nanswered + 1))]
    /\ last' = Event("engine_answer", FALSE, FALSE)
    /\ UNCHANGED <<bridge_process, ret, session>>

\* an engine that is not held to one line per command writes a line that
\* answers nothing
EngineExtraLine ==
    /\ ~NotRunning
    /\ ~wire.conformant
    /\ wire.extra < MaxExtraLines
    /\ \E l \in WireValues :
          wire' = [wire EXCEPT !.extra = @ + 1, !.outbox = Append(@, WireLine(l, 0))]
    /\ last' = Event("engine_extra", FALSE, FALSE)
    /\ UNCHANGED <<bridge_process, ret, session>>

\* the engine exits; one held to one line per command has answered them all
WireEngineExit ==
    /\ ~NotRunning
    /\ wire.conformant => wire.nanswered = wire.nwritten
    /\ bridge_process' = "exited"
    /\ last' = Event("engine_exit", FALSE, FALSE)
    /\ UNCHANGED <<wire, ret, session>>

Calls == \E verb \in Verbs : Call(verb)

NextWire ==
    \/ Calls
    \/ ReadLine
    \/ DelBegin
    \/ DelRead
    \/ DelWaitReturns
    \/ DelTimeout
    \/ EngineAnswer
    \/ EngineExtraLine
    \/ WireEngineExit

SpecWire == InitWire /\ [][NextWire]_vars

\* __del__ is under way
InShutdown == wire.pc \in {"del_reading", "del_waiting"}

\* C12: __del__ run when the engine process has already exited, or was
\* never started, writes no quit, does not wait, terminates nothing and
\* returns at once without raising, however many times it runs
C12_ShutdownOfDeadEngineIsNoOp ==
    [][(last'.op = "del" /\ NotRunning)
         => /\ wire' = [wire EXCEPT !.dels = @ + 1]
            /\ wire'.pc = "idle"
            /\ ~last'.raised
            /\ UNCHANGED <<bridge_process, ret, session>>]_vars

\* __del__ has run a second time on an engine that had exited
C12_Witness ==
    /\ last.op = "del"
    /\ Exited
    /\ wire.dels = 2
    /\ wire.quits = 0
    /\ wire.pc = "idle"

\* C14: at every point at most one command has been written whose readline
\* has not returned (with a line or with the end of the stream), and no
\* operation is between its write and its read when another one writes
C14_OneInFlight ==
    /\ wire.outstanding <= 1
    /\ wire.pc = "idle" => wire.outstanding = 0

\* a second command has been written after the first one's response was read
C14_Witness ==
    /\ wire.nwritten = 2
    /\ wire.outstanding = 1
    /\ wire.got = 1

\* C15: against an engine that writes exactly one line per command, in
\* order, the line an exchange reads is the engine's answer to the command
\* that exchange wrote, and the result returned is that line's decoding,
\* also after exchanges that failed
C15_ResponsesCorrelate ==
    [][(wire.conformant /\ last'.op \in {"readline", "del_readline"} /\ wire.outbox # <<>>)
         => /\ wire'.got = wire.nwritten
            /\ last'.op = "readline"
                 => ret' = exchange_result([k |-> "line", line |-> Head(wire.outbox)])]_vars

\* the third exchange has read the answer to the third command after an
\* exchange that failed on a line that is not JSON
C15_Witness ==
    /\ wire.conformant
    /\ last.op = "readline"
    /\ last.ok
    /\ wire.got = 3
    /\ wire.nwritten = 3

\* __del__ ends what it starts
WireFairness == WF_vars(DelRead) /\ WF_vars(DelWaitReturns \/ DelTimeout)

SpecWireLive == SpecWire /\ WireFairness

\* C13: __del__ on a live engine writes quit and waits no longer than the
\* timeout; an engine that has not exited by then, one that neither answers
\* quit nor exits included, is terminated, so that __del__ always ends with
\* the engine exited or terminated
C13_ShutdownFinishes ==
    InShutdown ~> (wire.pc = "idle" /\ (Exited \/ wire.terminates > 0))

(* ------------------------------ accessors ------------------------------ *)

\* get_winner(): None without a snapshot, else the snapshot's 'winner'
get_winner(gs) == IF ~Truthy(gs) THEN None ELSE Get(gs, "winner", None)

\* get_active_player(): None without a snapshot, else 'active_player'
get_active_player(gs) == IF ~Truthy(gs) THEN None ELSE Get(gs, "active_player", None)

\* the accessors read the snapshot with .get()
accessor_raises(gs) == Truthy(gs) /\ GetRaises(gs)

\* values the engine may give the well-known fields; Absent: the key is missing
Absent == [type |-> "absent"]
GameOverValues == {Absent, PyBool(TRUE), PyBool(FALSE)}
WinnerValues == {Absent, None, PyStr("Greece"), PyStr("Persia"), PyStr("Draw")}
PlayerValues == {Absent, PyStr("Greece"), PyStr("Persia")}

\* the snapshot with the given fields
AccessSnapshot(player, over, winner) ==
    LET fields == [active_player |-> player, game_over |-> over, winner |-> winner,
                   prompt |-> PyStr("Campaign 1")]
    IN PyDict([k \in {x \in DOMAIN fields : fields[x] # Absent} |-> fields[k]])

AccessSnapshots ==
    {AccessSnapshot(p, o, w) : p \in PlayerValues, o \in GameOverValues, w \in WinnerValues}

AccessGetState == \E s \in AccessSnapshots : trace_get_state(SnapshotOutcome(s))

\* an accessor returns value and changes nothing
accessor(name, value) ==
    /\ last' = Event(name, ~accessor_raises(game_state), accessor_raises(game_state))
    /\ ret' = IF accessor_raises(game_state) THEN Raised ELSE value
    /\ io' = <<>>
    /\ log' = <<>>
    /\ UNCHANGED <<game_state, turn_number, game_history, bridge_process, obs, eng, apart>>

IsGameOver == accessor("is_game_over", is_game_over(game_state))
GetWinner == accessor("get_winner", get_winner(game_state))
GetActivePlayer == accessor("get_active_player", get_active_player(game_state))

NextAccess == AccessGetState \/ IsGameOver \/ GetWinner \/ GetActivePlayer

SpecAccess == Init /\ [][NextAccess]_vars

\* C21: while the held snapshot reports game-over, get_winner() returns one
\* of the two players or the draw marker, never an absent value; while it
\* does not, get_winner() returns an absent value
C21_WinnerIffGameOver ==
    [][last'.op = "get_winner"
         => IF Truthy(is_game_over(game_state))
            THEN ret' \in {PyStr("Greece"), PyStr("Persia"), PyStr("Draw")}
            ELSE ret' = None]_vars

(* ------------------------- the response as text ------------------------ *)

\* JSON text as the engine writes it: literals, numbers, strings, arrays,
\* and objects as the sequence of their "key": value members
JNull == [j |-> "null"]
JTrue == [j |-> "true"]
JFalse == [j |-> "false"]
JNum(n) == [j |-> "number", n |-> n]
JStr(t) == [j |-> "string", t |-> t]
JArr(items) == [j |-> "array", items |-> items]
JObj(members) == [j |-> "object", members |-> members]
\* a line that is not JSON
NotJson == [j |-> "text"]

RECURSIVE json_value(_)
\* what json.loads builds from a document: None, bool, int, str, list, and a
\* dict in which the last member with a key wins
json_value(doc) ==
    CASE doc.j = "null" -> None
      [] doc.j = "true" -> PyBool(TRUE)
      [] doc.j = "false" -> PyBool(FALSE)
      [] doc.j = "number" -> PyInt(doc.n)
      [] doc.j = "string" -> PyStr(doc.t)
      [] doc.j = "array" -> PyList([i \in 1..Len(doc.items) |-> json_value(doc.items[i])])
      [] doc.j = "object" ->
           LET keys == {doc.members[i][1] : i \in 1..Len(doc.members)}
               lastOf(k) == CHOOSE i \in 1..Len(doc.members) :
                               /\ doc.members[i][1] = k
                               /\ \A n \in (i+1)..Len(doc.members) : doc.members[n][1] # k
           IN PyDict([k \in keys |-> json_value(doc.members[lastOf(k)][2])])

\* the line as readline and json.loads present it to _call_bridge
DocOutcome(doc) ==
    [k |-> "line",
     line |-> IF doc.j = "text" THEN [json |-> FALSE, value |-> None]
              ELSE [json |-> TRUE, value |-> json_value(doc)]]

\* members a response object may have
SuccessMembers == {<<>>, <<<<"success", JTrue>>>>, <<<<"success", JFalse>>>>,
                   <<<<"success", JNum(1)>>>>}
ErrorMembers == {<<>>, <<<<"error", JStr("Illegal action")>>>>}
StateMembers ==
    {<<>>, <<<<"gameState", JNull>>>>,
     <<<<"gameState", JObj(<<<<"game_over", JTrue>>, <<"winner", JStr("Persia")>>>>)>>>>,
     <<<<"gameState",
         JObj(<<<<"actions", JObj(<<<<"city", JArr(<<JStr("Athenai"), JStr("Sparta")>>)>>,
                                   <<"draw", JNum(1)>>>>)>>>>)>>>>}

\* documents the engine may write: response objects, an object that repeats
\* a key, an array, and text that is not JSON
CodecDocs ==
    {JObj(s \o e \o g) : s \in SuccessMembers, e \in ErrorMembers, g \in StateMembers}
    \cup {JObj(<<<<"success", JTrue>>, <<"success", JFalse>>>>),
          JArr(<<JNum(1)>>), NotJson}

CodecGetState == \E doc \in CodecDocs : trace_get_state(DocOutcome(doc))

NextCodec == CodecGetState \/ TraceEngineExit

SpecCodec == Init /\ [][NextCodec]_vars

\* an object no key of which is repeated
WellFormedObject(doc) ==
    /\ doc.j = "object"
    /\ \A i, n \in 1..Len(doc.members) : doc.members[i][1] = doc.members[n][1] => i = n

RECURSIVE SameValue(_, _)
\* the Python value is the document, part for part
SameValue(py, doc) ==
    \/ doc.j = "null" /\ py = None
    \/ doc.j = "true" /\ py = PyBool(TRUE)
    \/ doc.j = "false" /\ py = PyBool(FALSE)
    \/ doc.j = "number" /\ py.type = "int" /\ py.v = doc.n
    \/ doc.j = "string" /\ py.type = "str" /\ py.v = doc.t
    \/ /\ doc.j = "array"
       /\ py.type = "list"
       /\ Len(py.v) = Len(doc.items)
       /\ \A i \in 1..Len(doc.items) : SameValue(py.v[i], doc.items[i])
    \/ /\ doc.j = "object"
       /\ py.type = "dict"
       /\ DOMAIN py.v = {doc.members[i][1] : i \in 1..Len(doc.members)}
       /\ \A i \in 1..Len(doc.members) : SameValue(py.v[doc.members[i][1]], doc.members[i][2])

\* C22: the result an exchange returns is the object on the response line:
\* for every well-formed response object the success flag, the gameState
\* and the error text come back field for field, nothing added, removed or
\* rewritten
C22_ResultIsEngineObject ==
    [][\A doc \in CodecDocs :
         (WellFormedObject(doc) /\ ~Exited /\ trace_get_state(DocOutcome(doc)))
           => SameValue(ret', doc)]_vars

\* a domain failure has just come back with the engine's own error text
C22_Witness ==
    /\ last.op = "get_state"
    /\ ~last.ok
    /\ ~Exited
    /\ ret = PyDict([success |-> PyBool(FALSE), error |-> PyStr("Illegal action")])

(* --------------------------- get_game_history -------------------------- *)

\* variant: the session's own list is handed out
history_copy_alias(history) == [type |-> "list", v |-> history, same_object |-> TRUE]

\* self.game_history.copy(): a new list object holding the same records
history_copy(history) == [type |-> "list", v |-> history, same_object |-> FALSE]

get_game_history ==
    /\ ret' = history_copy(game_history)
    /\ last' = Event("get_game_history", TRUE, FALSE)
    /\ io' = <<>>
    /\ log' = <<>>
    /\ UNCHANGED <<game_state, turn_number, game_history, bridge_process, obs, eng, apart>>

\* the caller holds the list get_game_history handed out
HoldsList == ret.type = "list" /\ "same_object" \in DOMAIN ret

\* s with its entries in reverse order
Reversed(s) == [i \in 1..Len(s) |-> s[Len(s) + 1 - i]]

\* what the caller may do to a list: append an entry, remove the first one,
\* reverse it
ListEdits == {"append", "remove", "reverse"}
Edited(s, edit) ==
    CASE edit = "append" -> Append(s, PyStr("note"))
      [] edit = "remove" -> IF s = <<>> THEN s ELSE Tail(s)
      [] edit = "reverse" -> Reversed(s)

\* the caller edits the list in place; the session's list is the same object
\* or another one
CallerEdits(edit) ==
    /\ HoldsList
    /\ Len(ret.v) <= MaxTurns
    /\ ret' = [ret EXCEPT !.v = Edited(@, edit)]
    /\ game_history' = IF ret.same_object THEN Edited(game_history, edit) ELSE game_history
    /\ last' = Event("caller_" \o edit, FALSE, FALSE)
    /\ UNCHANGED <<game_state, turn_number, bridge_process, obs, io, eng, log, apart>>

\* the engine accepts an action with a new snapshot, or rejects it
HistoryOutcomes ==
    {SnapshotOutcome(SnapPlay),
     [k |-> "line",
      line |-> [json |-> TRUE,
                value |-> PyDict([success |-> PyBool(FALSE),
                                  error |-> PyStr("Illegal action")])]]}

HistoryExecuteAction ==
    \E input \in ActionInputs, out \in HistoryOutcomes :
        trace_execute_action(input[1], input[2], input[3], out)

GetGameHistory == get_game_history

CallerEditsList == \E edit \in ListEdits : CallerEdits(edit)

NextHistory == HistoryExecuteAction \/ GetGameHistory \/ CallerEditsList \/ TraceNewGame

SpecHistory == Init /\ [][NextHistory]_vars

\* C23: get_game_history() hands out the session's records in their order,
\* and adding, removing or reordering entries of the list handed out never
\* changes the session's history
C23_HistoryIsCopied ==
    [][/\ last'.op = "get_game_history"
            => ret'.v = game_history /\ game_history' = game_history
       /\ last'.op \in {"caller_append", "caller_remove", "caller_reverse"}
            => game_history' = game_history]_vars

\* the caller has just reversed its list of two records; the session's
\* history still has them in order
C23_Witness ==
    /\ last.op = "caller_reverse"
    /\ Len(game_history) = 2
    /\ game_history[1].turn < game_history[2].turn
    /\ Len(ret.v) = 2
    /\ ret.v[1] = game_history[2]
    /\ ret.v[2] = game_history[1]

\* the verb of the command an operation sends
VerbOf(op) ==
    CASE op = "new_game" -> "setup"
      [] op = "get_state" -> "state"
      [] op = "execute_action" -> "action"

\* C24: at the default log level every exchange with the engine adds to the
\* event log at least one record that names the verb and tells whether the
\* exchange succeeded or failed
C24_EveryExchangeLogged ==
    [][(last'.op \in {"new_game", "get_state", "execute_action"} /\ io' # <<>>)
         => \E i \in 1..Len(log') :
               /\ log'[i].verb = VerbOf(last'.op)
               /\ log'[i].outcome = IF last'.ok THEN "ok" ELSE "failed"]_vars

\* C25: after a successful setup, state or action exchange the held
\* snapshot is the response's snapshot when the response carries one, and
\* the snapshot held before when it carries none
C25_SnapshotAdoptedIfPresent ==
    [][(last'.op \in {"new_game", "get_state", "execute_action"} /\ last'.ok)
         => IF "gameState" \in DOMAIN ret'.v
            THEN game_state' = ret'.v.gameState
            ELSE game_state' = game_state]_vars

\* C26: in every reachable state the turn counter is the number of
\* execute_action calls, successful or not, since the last new_game call,
\* the history has one record for each successful one of them, and so the
\* turn counter is never below the length of the history
C26_TurnCountsCalls ==
    /\ turn_number = obs.n_ok + obs.n_fail
    /\ Len(game_history) = obs.n_ok
    /\ turn_number >= Len(game_history)

\* two actions since the last new_game, one of them rejected
C26_Witness ==
    /\ last.op = "execute_action"
    /\ obs.n_ok = 1
    /\ obs.n_fail = 1
    /\ turn_number = 2
    /\ Len(game_history) = 1

\* C27: once the engine process is seen to have exited it is never started
\* again, and every later new_game, get_state and execute_action returns
\* the 'Bridge server not running' failure without writing or reading
C27_ExitIsFinal ==
    [][Exited
         => /\ bridge_process' = "exited"
            /\ last'.op \in {"new_game", "get_state", "execute_action"}
                 => /\ ret' = Failure("Bridge server not running")
                    /\ io' = <<>>]_vars

\* a setup refused for an exited engine, a snapshot from before still held
C27_Witness ==
    /\ Exited
    /\ last.op = "new_game"
    /\ Truthy(game_state)
    /\ ret = Failure("Bridge server not running")
    /\ io = <<>>

\* the step wrote an action command first
WroteAction ==
    /\ Len(io') >= 1
    /\ io'[1].ev = "write"
    /\ io'[1].command.v.cmd = PyStr("action")

MaxDecisions == 2

\* a Python tuple
PyTuple(s) == [type |-> "tuple", v |-> s]

\* a == b: a bool compares with an int by its number (False == 0, True == 1),
\* any other pair of values is equal when type and value are
PyNumber(x) == IF x.type = "bool" THEN (IF x.v THEN 1 ELSE 0) ELSE x.v
PyEq(a, b) ==
    IF a.type \in {"int", "bool"} /\ b.type \in {"int", "bool"}
    THEN PyNumber(a) = PyNumber(b)
    ELSE a = b

\* x in [..]: equal to some element
PyIn(x, s) == \E i \in 1..Len(s) : PyEq(x, s[i])

\* isinstance(x, list), and isinstance(x, (int, str)): bool is a subclass of int
IsList(x) == x.type = "list"
IsIntOrStr(x) == x.type \in {"int", "bool", "str"}

\* random.choice(seq): any element of a non-empty sequence
random_choice(s) == {s[i] : i \in 1..Len(s)}

\* variant: an action with an empty choice list is kept
valid_actions_empty_list(actions) ==
    PyDict([k \in {x \in DOMAIN actions.v :
                     /\ ~PyEq(actions.v[x], PyInt(0))
                     /\ ~PyEq(actions.v[x], PyBool(FALSE))
                     /\ x # "undo"}
              |-> actions.v[k]])

\* {k: v for k, v in actions.items()
\*  if v != 0 and v != False and v != [] and k != 'undo'}
valid_actions(actions) ==
    PyDict([k \in {x \in DOMAIN actions.v :
                     /\ ~PyEq(actions.v[x], PyInt(0))
                     /\ ~PyEq(actions.v[x], PyBool(FALSE))
                     /\ ~PyEq(actions.v[x], PyList(<<>>))
                     /\ x # "undo"}
              |-> actions.v[k]])

\* variant: the flag 1 is returned as an argument
action_arg_flag(action_args) ==
    IF IsList(action_args) /\ Truthy(action_args) THEN random_choice(action_args.v)
    ELSE IF IsIntOrStr(action_args)
            /\ ~PyIn(action_args, <<PyInt(0), PyBool(FALSE)>>)
         THEN {action_args}
         ELSE {None}

\* the arguments choose_action may pair with an action whose value is
\* action_args
action_arg(action_args) ==
    IF IsList(action_args) /\ Truthy(action_args) THEN random_choice(action_args.v)
    ELSE IF IsIntOrStr(action_args)
            /\ ~PyIn(action_args, <<PyInt(0), PyInt(1), PyBool(FALSE)>>)
         THEN {action_args}
         ELSE {None}

\* the values choose_action may return when get_actions() returned
\* actions_result
choose_action_returns(actions_result) ==
    IF ~Truthy(Get(actions_result, "success", None)) THEN {None}
    ELSE LET actions == Get(actions_result, "actions", EmptyDict) IN
         IF ~Truthy(actions) THEN {None}
         ELSE LET valid == valid_actions(actions) IN
              IF ~Truthy(valid) THEN {None}
              ELSE UNION {{PyTuple(<<PyStr(k), a>>) : a \in action_arg(valid.v[k])} :
                            k \in DOMAIN valid.v}

\* choose_action counts the decision, asks get_actions() (undo excluded) and
\* returns (action_name, action_arg) or None
choose_action ==
    /\ agent.decision_count < MaxDecisions
    /\ agent' = [agent EXCEPT !.decision_count = @ + 1]
    /\ ret' \in choose_action_returns(get_actions_result(game_state, FALSE))
    /\ last' = Event("choose_action", ret' # None, FALSE)
    /\ io' = <<>>
    /\ log' = emitted(get_actions_log(game_state))
    /\ UNCHANGED <<game_state, turn_number, game_history, bridge_process, obs, eng, wire, game>>

\* game_started resets the counter and reads the active player
game_started ==
    /\ agent' = [agent EXCEPT !.decision_count = 0]
    /\ last' = Event("game_started", TRUE, FALSE)
    /\ ret' = None
    /\ io' = <<>>
    /\ log' = <<>>
    /\ UNCHANGED <<game_state, turn_number, game_history, bridge_process, obs, eng, wire, game>>

\* values an action may have in the mapping: flags, numbers, a string and
\* choice lists
AgentArgs ==
    {PyInt(0), PyInt(1), PyInt(2), PyBool(FALSE), PyBool(TRUE), PyStr("x"),
     PyList(<<>>), PyList(<<PyStr("Athenai"), PyStr("Sparta")>>)}
AgentKeys == {"draw", "undo", "city"}

\* every mapping from some of the names to the values, 'undo' being a flag
AgentMaps ==
    {m \in UNION {[S -> AgentArgs] : S \in SUBSET AgentKeys} :
       "undo" \in DOMAIN m => m["undo"] = PyInt(1)}

\* snapshots with each of the mappings, one with no 'actions' and an empty one
AgentSnapshots ==
    {PyDict([active_player |-> PyStr("Greece"), actions |-> PyDict(m)]) : m \in AgentMaps}
    \cup {PyDict([active_player |-> PyStr("Greece")]), EmptyDict}

AgentGetState == \E s \in AgentSnapshots : trace_get_state(SnapshotOutcome(s))

ChooseAction == choose_action

GameStarted == game_started

NextAgent == AgentGetState \/ ChooseAction \/ GameStarted

SpecAgent == Init /\ [][NextAgent]_vars

\* the actions of the held snapshot's mapping that are not 'undo' and whose
\* value is not 0, False or an empty list
EnabledActions ==
    IF IsDict(game_state)
    THEN {k \in DOMAIN HeldActions \ {"undo"} :
            HeldActions[k] \notin {PyInt(0), PyBool(FALSE), PyList(<<>>)}}
    ELSE {}

\* C29: choose_action returns an action only if it is a key of the held
\* snapshot's action mapping other than 'undo' whose value is not 0, False
\* or an empty list; it returns None exactly when get_actions fails or there
\* is no such action; and each such action is a possible return
C29_AgentChoosesEnabled ==
    [][last'.op = "choose_action"
         => /\ ret' # None
                 => /\ ret'.type = "tuple"
                    /\ ret'.v[1].v \in EnabledActions
            /\ ret' = None
                 <=> \/ ~Succeeded(get_actions_result(game_state, FALSE))
                     \/ EnabledActions = {}
            /\ \A k \in EnabledActions :
                 \E r \in choose_action_returns(get_actions_result(game_state, FALSE)) :
                    r # None /\ r.v[1] = PyStr(k)]_vars

\* the agent chose 'city' while 'undo' was offered and 'draw' was disabled
C29_Witness ==
    /\ last.op = "choose_action"
    /\ IsDict(game_state)
    /\ DOMAIN HeldActions = {"draw", "undo", "city"}
    /\ HeldActions["draw"] = PyList(<<>>)
    /\ ret # None
    /\ ret.v[1] = PyStr("city")

\* C30: the argument returned with an action is a member of the action's
\* choice sequence when its value is a non-empty sequence, None when the
\* value is a boolean or the integer 1, and the value itself when it is any
\* other integer or a string
C30_AgentArgument ==
    [][(last'.op = "choose_action" /\ ret' # None)
         => LET value == HeldActions[ret'.v[1].v]
                arg == ret'.v[2]
            IN CASE value.type = "list" /\ Len(value.v) > 0
                      -> \E i \in 1..Len(value.v) : arg = value.v[i]
                 [] value.type = "bool" \/ value = PyInt(1) -> arg = None
                 [] value.type = "int" /\ value # PyInt(1) -> arg = value
                 [] value.type = "str" -> arg = value
                 [] OTHER -> TRUE]_vars

\* the agent returned 'city' with a city of its choice list
C30_Witness ==
    /\ last.op = "choose_action"
    /\ IsDict(game_state)
    /\ HeldActions = [city |-> PyList(<<PyStr("Athenai"), PyStr("Sparta")>>)]
    /\ ret = PyTuple(<<PyStr("city"), PyStr("Sparta")>>)

(* ----------------------------- InteractiveGame ------------------------- *)

\* max_turns = 200, the loop's safety limit
max_turns == 200

\* the sides the human may choose
Sides == {"Greece", "Persia"}

\* snapshots of a game between the two sides: Persia to choose a city,
\* nobody named as active, Greece active with nothing but undo on offer
SnapCity ==
    PyDict([active_player |-> PyStr("Persia"),
            prompt |-> PyStr("Choose a city"),
            actions |-> PyDict([city |-> PyList(<<PyStr("Athenai"), PyStr("Sparta")>>)]),
            game_over |-> PyBool(FALSE)])
SnapNoPlayer ==
    PyDict([prompt |-> PyStr("Draw cards"),
            actions |-> PyDict([draw |-> PyInt(1)]),
            game_over |-> PyBool(FALSE)])
SnapWait ==
    PyDict([active_player |-> PyStr("Greece"),
            prompt |-> PyStr("Wait"),
            actions |-> PyDict([undo |-> PyInt(1)]),
            game_over |-> PyBool(FALSE)])

GameSnapshots == {SnapPlay, SnapCity, SnapNoPlayer, SnapWait, SnapOver, SnapBad}

\* response lines of the engine during a game
GameLines ==
    {[json |-> TRUE, value |-> PyDict([success |-> PyBool(TRUE), gameState |-> s])] :
        s \in GameSnapshots}
    \cup {[json |-> TRUE, value |-> PyDict([success |-> PyBool(TRUE)])],
          [json |-> TRUE,
           value |-> PyDict([success |-> PyBool(FALSE), error |-> PyStr("Illegal action")])]}

\* what an exchange of the game meets
GameOutcomes ==
    IF Exited THEN {CHOOSE o \in Outcomes : o.k = "eof"}
    ELSE {o \in Outcomes : o.k = "eof"} \cup {[k |-> "line", line |-> l] : l \in GameLines}

\* variant: the AI acts on its own side only, the human on everything else
play_turn_chooser_ai_side(active_player, human_player) ==
    IF PyEq(active_player, IF human_player = PyStr("Greece")
                           THEN PyStr("Persia") ELSE PyStr("Greece"))
    THEN "ai" ELSE "human"

\* if active_player == self.human_player: the human's turn, else the AI's
play_turn_chooser(active_player, human_player) ==
    IF PyEq(active_player, human_player) THEN "human" ELSE "ai"

\* the actions get_human_action lists: none when get_actions fails or offers
\* nothing, else the enabled ones without undo
human_action_list(gs) ==
    LET actions_result == get_actions_result(gs, FALSE) IN
    IF ~Truthy(Get(actions_result, "success", None)) THEN {}
    ELSE LET actions == Get(actions_result, "actions", EmptyDict) IN
         IF ~Truthy(actions) THEN {} ELSE DOMAIN valid_actions(actions).v

\* the value an action of the list has in the snapshot
human_action_args(gs, action_name) == gs.v.actions.v[action_name]

\* while turn_count < max_turns and not self.game_env.is_game_over()
loop_condition == game.turn_count < max_turns /\ ~Truthy(is_game_over(game_state))

\* a step of the game that makes no exchange
no_exchange(op, ok) ==
    /\ last' = Event(op, ok, FALSE)
    /\ ret' = None
    /\ io' = <<>>
    /\ UNCHANGED <<game_state, turn_number, game_history, bridge_process, obs, eng, wire>>

\* execute_action as play_turn calls it: the player is the value
\* get_active_player() returned, the action one of the listed names
play_execute_action(player, action_name, arg, out) ==
    LET command == PyDict([cmd |-> PyStr("action"),
                           args |-> PyDict([player |-> player,
                                            action |-> PyStr(action_name),
                                            arg |-> arg])])
        turn == next_turn(turn_number)
        result == call_bridge(command, out)
        gs == execute_action_adopt(result, game_state)
        record == action_record(turn, player, action_name, arg, game_state, gs)
        raised == execute_action_raises(result, gs)
    IN /\ turn_number' = turn
       /\ game_state' = gs
       /\ game_history' = execute_action_history(game_history, result, record)
       /\ bridge_process' = ProcessAfter(out)
       /\ last' = Event("execute_action", Succeeded(result), raised)
       /\ obs' = IF Succeeded(result)
                 THEN [obs EXCEPT !.n_ok = @ + 1]
                 ELSE [obs EXCEPT !.n_fail = @ + 1]
       /\ ret' = IF raised THEN Raised ELSE result
       /\ io' = call_bridge_io(command, out)
       /\ eng' = [eng EXCEPT !.engine_over = engine_over_after(out)]
       /\ log' = emitted(execute_action_log(command, out))
       /\ UNCHANGED wire

\* where run_game stands once play_turn has called execute_action: left by
\* the exception, or play_turn returned True and the loop breaks on a
\* finished game or goes back to its test
pc_after_action ==
    IF last'.raised THEN "aborted"
    ELSE IF Truthy(is_game_over(game_state')) THEN "results"
    ELSE "loop"

\* the rest of a turn from the call of execute_action on, g being the game
\* as the turn has left it so far; a live engine takes MaxTraceTurns actions
act(g, action_name, arg) ==
    \E out \in GameOutcomes :
        /\ Exited \/ turn_number < MaxTraceTurns
        /\ play_execute_action(g.active_player, action_name, arg, out)
        /\ game' = [g EXCEPT !.sent = @ + 1, !.pc = pc_after_action]

\* setup_game: the human picks a side, the environment and the agent are
\* made and new_game is called; run_game returns when it fails
SetupGame ==
    \E side \in Sides, seed \in Seeds, out \in GameOutcomes :
        LET command == setup_command(seed, "Standard")
            result == call_bridge(command, out)
        IN /\ game.pc = "init"
           /\ new_game(seed, "Standard", out)
           /\ ret' = IF last'.raised THEN Raised ELSE result
           /\ io' = call_bridge_io(command, out)
           /\ eng' = [setup_done |-> eng.setup_done \/ Succeeded(result),
                      engine_over |-> engine_over_after(out)]
           /\ log' = emitted(new_game_log(command, out, game_state'))
           /\ agent' = [decision_count |-> 0]
           /\ game' = [game EXCEPT !.human_player = PyStr(side),
                                   !.pc = IF last'.raised THEN "aborted"
                                          ELSE IF ~last'.ok THEN "returned"
                                          ELSE "loop"]
           /\ UNCHANGED wire

\* the while test fails: _show_game_results
LoopEnds ==
    /\ game.pc = "loop"
    /\ ~loop_condition
    /\ no_exchange("show_game_results", TRUE)
    /\ game' = [game EXCEPT !.pc = "results"]
    /\ log' = <<>>
    /\ UNCHANGED agent

\* the turn play_turn begins: the active player is read and decides who
\* chooses
turn_begun(chooser) ==
    [game EXCEPT !.turn_count = @ + 1,
                 !.active_player = get_active_player(game_state),
                 !.action_name = "",
                 !.asked = FALSE,
                 !.chooser = chooser,
                 !.sent = 0]

\* a turn of the AI: choose_action, then execute_action; play_turn returns
\* False when the agent returns None
PlayTurnAI ==
    /\ game.pc = "loop"
    /\ loop_condition
    /\ play_turn_chooser(get_active_player(game_state), game.human_player) = "ai"
    /\ agent' = [agent EXCEPT !.decision_count = @ + 1]
    /\ \E choice \in choose_action_returns(get_actions_result(game_state, FALSE)) :
          IF choice = None
          THEN /\ no_exchange("choose_action", FALSE)
               /\ log' = emitted(get_actions_log(game_state))
               /\ game' = [turn_begun("ai") EXCEPT !.pc = "results"]
          ELSE act(turn_begun("ai"), choice.v[1].v, choice.v[2])

\* a turn of the human up to the first prompt: get_human_action returns None
\* at once when there is nothing to list, and play_turn returns False
PlayTurnHuman ==
    /\ game.pc = "loop"
    /\ loop_condition
    /\ play_turn_chooser(get_active_player(game_state), game.human_player) = "human"
    /\ log' = emitted(get_actions_log(game_state))
    /\ UNCHANGED agent
    /\ IF human_action_list(game_state) = {}
       THEN /\ no_exchange("no_actions", FALSE)
            /\ game' = [turn_begun("human") EXCEPT !.pc = "results"]
       ELSE /\ no_exchange("prompt", TRUE)
            /\ game' = [turn_begun("human") EXCEPT !.pc = "asking", !.asked = TRUE]

\* the human answers h: the help text, then a prompt to continue
AnswerHelp ==
    /\ game.pc = "asking"
    /\ no_exchange("help", TRUE)
    /\ game' = [game EXCEPT !.pc = "help"]
    /\ log' = <<>>
    /\ UNCHANGED agent

\* the human presses Enter after the help text and is asked again
HelpContinue ==
    /\ game.pc = "help"
    /\ no_exchange("help_read", TRUE)
    /\ game' = [game EXCEPT !.pc = "asking"]
    /\ log' = <<>>
    /\ UNCHANGED agent

\* the human answers s (display_game_state) or something that is neither a
\* command nor a listed number, and is asked again
AnswerAgain ==
    /\ game.pc = "asking"
    /\ \E op \in {"status", "invalid"} : no_exchange(op, TRUE)
    /\ log' = <<>>
    /\ UNCHANGED <<agent, game>>

\* the human answers q: get_human_action returns None, play_turn False
AnswerQuit ==
    /\ game.pc = "asking"
    /\ no_exchange("quit", FALSE)
    /\ game' = [game EXCEPT !.pc = "results"]
    /\ log' = <<>>
    /\ UNCHANGED agent

\* the human answers the number of a listed action: an action with several
\* choices asks for the argument, one with a single choice takes it, any
\* other goes without argument
AnswerChoice ==
    /\ game.pc = "asking"
    /\ UNCHANGED agent
    /\ \E action_name \in human_action_list(game_state) :
          LET action_args == human_action_args(game_state, action_name) IN
          IF IsList(action_args) /\ Len(action_args.v) > 1
          THEN /\ no_exchange("prompt_arg", TRUE)
               /\ game' = [game EXCEPT !.pc = "asking_arg", !.action_name = action_name]
               /\ log' = <<>>
          ELSE act(game, action_name,
                   IF IsList(action_args) /\ Truthy(action_args)
                   THEN action_args.v[1] ELSE None)

\* the human names or numbers one of the choices
AnswerArg ==
    /\ game.pc = "asking_arg"
    /\ UNCHANGED agent
    /\ \E arg \in random_choice(human_action_args(game_state, game.action_name).v) :
          act(game, game.action_name, arg)

\* the human answers the argument prompt with something else, and is asked
\* again
AnswerArgAgain ==
    /\ game.pc = "asking_arg"
    /\ no_exchange("invalid_arg", TRUE)
    /\ log' = <<>>
    /\ UNCHANGED <<agent, game>>

\* the engine exits while the game is under way
GameEngineExit ==
    /\ game.pc \in {"init", "loop", "asking", "help", "asking_arg"}
    /\ TraceEngineExit

NextGame ==
    \/ SetupGame
    \/ LoopEnds
    \/ PlayTurnAI
    \/ PlayTurnHuman
    \/ AnswerHelp
    \/ HelpContinue
    \/ AnswerAgain
    \/ AnswerQuit
    \/ AnswerChoice
    \/ AnswerArg
    \/ AnswerArgAgain
    \/ GameEngineExit

SpecGame == Init /\ [][NextGame]_vars

\* play_turn returned False: the human quit or had nothing to choose from,
\* or the agent returned None
TurnRefused == last'.op \in {"quit", "no_actions", "choose_action"}

\* the step returned with a snapshot that reports game-over
GameOverAfter == ~last'.raised /\ Truthy(is_game_over(game_state'))

\* C31: once setup has succeeded run_game is left only through the results
\* display; the loop makes at most 200 play_turn calls; it stops before that
\* exactly when the snapshot reports game-over or play_turn returns False; a
\* failed execute_action sends the loop back to its test with the turn
\* counted
C31_RunGameEnds ==
    /\ [](game.pc = "aborted" => game.turn_count = 0)
    /\ [](game.turn_count <= max_turns)
    /\ [][(game.pc # "results" /\ game'.pc = "results")
            => \/ GameOverAfter
               \/ TurnRefused
               \/ game'.turn_count = max_turns]_vars
    /\ [][(game.pc \in {"loop", "asking", "asking_arg"}
           /\ (TurnRefused \/ (last'.op = "execute_action"
                               /\ GameOverAfter)))
            => game'.pc = "results"]_vars
    /\ [][(game.pc # "init" /\ last'.op = "execute_action" /\ ~last'.ok)
            => /\ game'.pc = "loop"
               /\ game'.turn_count >= 1
               /\ game'.turn_count >= game.turn_count]_vars

\* play_turn begins
TurnBegins == game.pc = "loop" /\ game'.turn_count = game.turn_count + 1

\* play_turn calls execute_action
TurnActs == game.pc # "init" /\ last'.op = "execute_action"

\* the player of the action command the step wrote, when it wrote one
SentPlayer == io'[1].command.v.args.v.player

====
